---- MODULE Spec2Model ----
(***************************************************************************)
(* State machine of the text adventure in src/main.py: the room graph, the *)
(* item registry, the player's position and inventory, and the command     *)
(* loop of main().                                                         *)
(*                                                                         *)
(* Text is modelled as follows.  A token (and a word of an item name) is   *)
(* a string; a line of input is the sequence of tokens str.split()         *)
(* returns, before lower-casing; an item name is its sequence of words     *)
(* (separated by single spaces).  A printed line is a sequence of string   *)
(* pieces whose concatenation is the text.  The output of a turn is the    *)
(* sequence of lines it prints.                                            *)
(***************************************************************************)
EXTENDS Integers, Sequences, FiniteSets, TLC

INVENTORY_LIMIT == 3
HELD == 999
VALID_DIRECTIONS == <<"north", "east", "south", "west", "up", "down">>

\* Bound of the model: the number of rooms of the loaded map.
NumRooms == 2
\* The map has one item more than the inventory holds, so that the inventory
\* can be full with an item left to pick up.
NumItems == INVENTORY_LIMIT + 1

Rooms == 0 .. (NumRooms - 1)

VARIABLES game_map, items, current_room, entrance_room, items_held, leave,
          out, lookOut

vars == <<game_map, items, current_room, entrance_room, items_held, leave,
          out, lookOut>>

\* What the game can change: everything except the printed text.
core == <<game_map, items, current_room, entrance_room, items_held, leave>>

----------------------------------------------------------------------------
\* str.lower() on one word, for the words of the model's vocabulary.
LowerWord(w) ==
    CASE w = "Aura" -> "aura"
      [] w = "AURA" -> "aura"
      [] w = "Lamp" -> "lamp"
      [] w = "Rusty" -> "rusty"
      [] w = "Key" -> "key"
      [] w = "Look" -> "look"
      [] w = "PICKUP" -> "pickup"
      [] w = "Drop" -> "drop"
      [] w = "GO" -> "go"
      [] w = "North" -> "north"
      [] w = "SOUTH" -> "south"
      [] w = "Leave" -> "leave"
      [] OTHER -> w

\* str.lower() on a sequence of words.
Lower(ws) == [i \in DOMAIN ws |-> LowerWord(ws[i])]

\* " ".join(words) as string pieces.
RECURSIVE JoinWords(_)
JoinWords(ws) ==
    IF ws = <<>> THEN <<>>
    ELSE IF Len(ws) = 1 THEN <<ws[1]>>
    ELSE <<ws[1], " ">> \o JoinWords(Tail(ws))

\* sep.join(strs) as string pieces.
RECURSIVE JoinWith(_, _)
JoinWith(sep, strs) ==
    IF strs = <<>> THEN <<>>
    ELSE IF Len(strs) = 1 THEN <<strs[1]>>
    ELSE <<strs[1], sep>> \o JoinWith(sep, Tail(strs))

\* The first of the indices in S, 0 if there is none (the index at which a
\* for ... break ... else loop of main stops).
FirstIndex(S) ==
    IF S = {} THEN 0 ELSE CHOOSE i \in S : \A j \in S : i <= j

\* dict membership and lookup on an ordered dict (sequence of <<key, value>>).
HasKey(exits, d) == \E i \in DOMAIN exits : exits[i][1] = d
Lookup(exits, d) == exits[CHOOSE i \in DOMAIN exits : exits[i][1] = d][2]

InSeq(x, seq) == \E i \in DOMAIN seq : seq[i] = x

----------------------------------------------------------------------------
\* Variant of check_key that does not test where the key is.
check_key_any_location(room_number, its) ==
    \E i \in DOMAIN its :
        /\ its[i].type = "Key"
        /\ room_number \in its[i].rooms_unlocked

check_key(room_number, its) ==
    \E i \in DOMAIN its :
        /\ its[i].type = "Key"
        /\ its[i].location = HELD
        /\ room_number \in its[i].rooms_unlocked

\* Variant of format_passages whose slice of the leading directions is one
\* element short.
format_passages_short_slice(exits) ==
    LET directions == [i \in DOMAIN exits |-> exits[i][1]]
        n == Len(directions)
    IN  IF n = 0 THEN <<"There are no visible exits from the room.">>
        ELSE IF n = 1
        THEN <<"There is a passage out of the room going ", directions[1], ".">>
        ELSE IF n = 2
        THEN <<"There are passages out of the room going ",
               directions[1], " and ", directions[2], ".">>
        ELSE <<"There are passages out of the room going ">>
             \o JoinWith(", ", SubSeq(directions, 1, n - 2))
             \o <<" and ", directions[n], ".">>

format_passages(exits) ==
    LET directions == [i \in DOMAIN exits |-> exits[i][1]]
        n == Len(directions)
    IN  IF n = 0 THEN <<"There are no visible exits from the room.">>
        ELSE IF n = 1
        THEN <<"There is a passage out of the room going ", directions[1], ".">>
        ELSE IF n = 2
        THEN <<"There are passages out of the room going ",
               directions[1], " and ", directions[2], ".">>
        ELSE <<"There are passages out of the room going ">>
             \o JoinWith(", ", SubSeq(directions, 1, n - 1))
             \o <<" and ", directions[n], ".">>

\* Variant of get_new_room_number that looks the direction up in the exits
\* before it tests whether the direction is canonical.
get_new_room_number_exits_first(gm, current_room_num, dir) ==
    LET direction == LowerWord(dir)
    IN  IF HasKey(gm[current_room_num].exits, direction)
        THEN [room |-> Lookup(gm[current_room_num].exits, direction),
              out |-> <<>>]
        ELSE IF ~InSeq(direction, VALID_DIRECTIONS)
        THEN [room |-> -1,
              out |-> << <<"'", direction, "' is not a valid direction.">> >>]
        ELSE [room |-> -1,
              out |-> << <<"You can't go ", direction, " from here.">> >>]

\* Result of get_new_room_number: the room (-1 if invalid) and what it prints.
get_new_room_number(gm, current_room_num, dir) ==
    LET direction == LowerWord(dir)
    IN  IF ~InSeq(direction, VALID_DIRECTIONS)
        THEN [room |-> -1,
              out |-> << <<"'", direction, "' is not a valid direction.">> >>]
        ELSE IF HasKey(gm[current_room_num].exits, direction)
        THEN [room |-> Lookup(gm[current_room_num].exits, direction),
              out |-> <<>>]
        ELSE [room |-> -1,
              out |-> << <<"You can't go ", direction, " from here.">> >>]

DarkLine == <<"This is a dark room. You can't see anything.">>

\* Variant of player_light that does not test where the item is.
player_light_any_location(its) ==
    \E i \in DOMAIN its : its[i].provides_light

player_light(its) ==
    \E i \in DOMAIN its : its[i].provides_light /\ its[i].location = HELD

RECURSIVE ItemLines(_, _)
ItemLines(its, room) ==
    IF its = <<>> THEN <<>>
    ELSE (IF Head(its).location = room
          THEN << <<"There is a ">> \o JoinWords(Head(its).name) \o <<" here.">> >>
          ELSE <<>>)
         \o ItemLines(Tail(its), room)

describe_room(gm, its, room) ==
    IF ~gm[room].is_lit /\ ~player_light(its)
    THEN <<DarkLine>>
    ELSE <<gm[room].name, gm[room].description>>
         \o ItemLines(its, room)
         \o <<format_passages(gm[room].exits)>>

RECURSIVE HeldLines(_)
HeldLines(its) ==
    IF its = <<>> THEN <<>>
    ELSE (IF Head(its).location = HELD
          THEN << <<"- ">> \o JoinWords(Head(its).name) >>
          ELSE <<>>)
         \o HeldLines(Tail(its))

show_inventory(its) ==
    << <<"You are carrying:">> >>
    \o HeldLines(its)
    \o (IF \E i \in DOMAIN its : its[i].location = HELD
        THEN <<>> ELSE << <<"Nothing">> >>)
    \o << <<>> >>

\* Variant of validate_exit that reads the is_held attribute instead of the
\* location.
validate_exit_is_held(its) ==
    \E i \in DOMAIN its :
        its[i].name = <<"Aura">> /\ its[i].is_held

validate_exit(its) ==
    \E i \in DOMAIN its :
        its[i].name = <<"Aura">> /\ its[i].location = HELD

\* The static part of the help text (the platform lines depend on the host).
show_help ==
    << <<"Version: ", "0.3.0.dev1">>,
       <<>>,
       <<"Enter the following commands to perform actions.">>,
       <<>> >>

WonLines ==
    << <<"The door opens, revealing the night sky outside.">>,
       <<"You have escaped.">>,
       <<>>,
       <<"Congratulations! You won!">> >>

----------------------------------------------------------------------------
\* The loaded map (get_map_data).  Room r of the model's maps has an exit
\* north to r+1 and south to r-1 where these exist; room 0 also has an exit
\* under the non-canonical key "portal", and the last room has exits down to
\* room 0 and up to itself.
RoomExits(r) ==
    (IF r + 1 < NumRooms THEN << <<"north", r + 1>> >> ELSE <<>>)
    \o (IF r > 0 THEN << <<"south", r - 1>> >> ELSE <<>>)
    \o (IF r = 0 THEN << <<"portal", NumRooms - 1>> >> ELSE <<>>)
    \o (IF r = NumRooms - 1 THEN << <<"down", 0>>, <<"up", r>> >> ELSE <<>>)

Room(number, is_lit, is_locked) ==
    [number |-> number,
     name |-> <<"Room ", ToString(number)>>,
     description |-> <<"A room.">>,
     is_lit |-> is_lit,
     is_locked |-> is_locked,
     exits |-> RoomExits(number)]

Item(name, location, provides_light) ==
    [type |-> "Item", name |-> name, location |-> location,
     is_held |-> FALSE, provides_light |-> provides_light,
     rooms_unlocked |-> {}]

Key(name, location, provides_light, rooms_unlocked) ==
    [type |-> "Key", name |-> name, location |-> location,
     is_held |-> FALSE, provides_light |-> provides_light,
     rooms_unlocked |-> rooms_unlocked]

\* The unlit rooms and the locked rooms of the model's maps: the last room
\* or every room is unlit; no room, room 0 or the last room is locked.
FlagChoices ==
    { [dark |-> {NumRooms - 1}, locked |-> {}],
      [dark |-> Rooms, locked |-> {0}],
      [dark |-> {NumRooms - 1}, locked |-> {NumRooms - 1}],
      [dark |-> Rooms, locked |-> {NumRooms - 1}] }

\* The spawn rooms of the model's maps.
SpawnChoices == {0, NumRooms - 1}

\* The item sets of the model's maps: the rooms the key unlocks, the names
\* of the third and fourth item, and the entrance room of the map.
ItemChoices ==
    { [keyRooms |-> {NumRooms - 1}, names |-> << <<"aura">>, <<"Aura">> >>,
       entrance |-> 0],
      [keyRooms |-> {0}, names |-> << <<"Aura">>, <<"Lamp">> >>,
       entrance |-> NumRooms - 1] }

\* Item i of a map: a key, a lamp that gives light, two named items, then
\* lamps that give no light.  Item i
\* starts in room (i-1) mod NumRooms.
create_item(i, keyRooms, names) ==
    LET location == (i - 1) % NumRooms
    IN  IF i = 1 THEN Key(<<"Rusty", "Key">>, location, FALSE, keyRooms)
        ELSE IF i = 2 THEN Item(<<"Lamp">>, location, TRUE)
        ELSE IF i = 3 THEN Item(names[1], location, FALSE)
        ELSE IF i = 4 THEN Item(names[2], location, FALSE)
        ELSE Item(<<"Lamp">>, location, FALSE)

\* The lines of input the player types, as str.split() returns them.
ItemArgs == { <<"aura">>, <<"lamp">>, <<"Rusty", "key">>, <<"key">> }
DirArgs == { <<"north">>, <<"SOUTH">>, <<"down">>, <<"up">>, <<"west">>,
             <<"portal">>, <<"banana">>, <<"north", "now">> }
Lines ==
    { <<>>, <<"Look">>, <<"inventory">>, <<"help">>, <<"leave">>,
      <<"dance">>, <<"take", "lamp">>, <<"pickup">>, <<"drop">>, <<"go">>,
      <<"PICKUP", "Aura">> }
    \cup { <<"pickup">> \o a : a \in ItemArgs }
    \cup { <<"drop">> \o a : a \in ItemArgs }
    \cup { <<"go">> \o a : a \in DirArgs }

\* History: output of the last look command since the game state last changed.
NoLook == << <<"(no look)">> >>

Init ==
    /\ \E f \in FlagChoices :
          game_map = [r \in Rooms |->
                         Room(r, r \notin f.dark, r \in f.locked)]
    /\ \E c \in ItemChoices :
          /\ items = [i \in 1 .. NumItems |->
                         create_item(i, c.keyRooms, c.names)]
          /\ entrance_room = c.entrance
    /\ current_room \in SpawnChoices
    /\ items_held = 0
    /\ leave = FALSE
    /\ out = describe_room(game_map, items, current_room)
    /\ lookOut = NoLook

----------------------------------------------------------------------------
\* Effect of a command that only prints.
Say(lines) ==
    /\ out' = lines
    /\ UNCHANGED <<core, lookOut>>

Empty(line) ==
    /\ ~leave
    /\ Lower(line) = <<>>
    /\ Say(<< <<"Enter 'help' for help.">> >>)

\* Variant of Look that marks the room it describes as lit.
Look_lights_room(line) ==
    LET command == Lower(line)
    IN  /\ ~leave
        /\ command # <<>>
        /\ command[1] = "look"
        /\ out' = describe_room(game_map, items, current_room)
        /\ lookOut' = out'
        /\ game_map' = [game_map EXCEPT ![current_room].is_lit = TRUE]
        /\ UNCHANGED <<items, current_room, entrance_room, items_held, leave>>

Look(line) ==
    LET command == Lower(line)
    IN  /\ ~leave
        /\ command # <<>>
        /\ command[1] = "look"
        /\ out' = describe_room(game_map, items, current_room)
        /\ lookOut' = out'
        /\ UNCHANGED core

Inventory(line) ==
    LET command == Lower(line)
    IN  /\ ~leave
        /\ command # <<>>
        /\ command[1] = "inventory"
        /\ Say(show_inventory(items))

\* Variant of pickup whose capacity test is <= instead of <.
pickup_off_by_one(its, room, held, item_name) ==
    LET i == FirstIndex({k \in DOMAIN its :
                 its[k].location = room /\ Lower(its[k].name) = item_name})
    IN  IF i = 0
        THEN [items |-> its, items_held |-> held,
              out |-> << <<"No such item here.">>,
                         <<"Hint: Enter the full name of the item, ",
                           "eg. 'rusty key' instead of 'key'.">> >>]
        ELSE IF held <= INVENTORY_LIMIT
        THEN [items |-> [its EXCEPT ![i].location = HELD],
              items_held |-> held + 1,
              out |-> << <<"You picked up the ">> \o JoinWords(its[i].name)
                         \o <<".">> >>]
        ELSE [items |-> its, items_held |-> held,
              out |-> << <<"You're carrying too much. ",
                           "Drop an item to pick it up.">> >>]

\* Variant of pickup whose loop has no break: every matching item of the
\* room is taken.
pickup_no_break(its, room, held, item_name) ==
    LET found == {k \in DOMAIN its :
                     its[k].location = room /\ Lower(its[k].name) = item_name}
        i == FirstIndex(found)
    IN  IF i = 0
        THEN [items |-> its, items_held |-> held,
              out |-> << <<"No such item here.">>,
                         <<"Hint: Enter the full name of the item, ",
                           "eg. 'rusty key' instead of 'key'.">> >>]
        ELSE IF held < INVENTORY_LIMIT
        THEN [items |-> [k \in DOMAIN its |->
                            IF k \in found
                            THEN [its[k] EXCEPT !.location = HELD]
                            ELSE its[k]],
              items_held |-> held + 1,
              out |-> << <<"You picked up the ">> \o JoinWords(its[i].name)
                         \o <<".">> >>]
        ELSE [items |-> its, items_held |-> held,
              out |-> << <<"You're carrying too much. ",
                           "Drop an item to pick it up.">> >>]

\* The pickup branch on the items: the new items, held-count and output.
pickup(its, room, held, item_name) ==
    LET i == FirstIndex({k \in DOMAIN its :
                 its[k].location = room /\ Lower(its[k].name) = item_name})
    IN  IF i = 0
        THEN [items |-> its, items_held |-> held,
              out |-> << <<"No such item here.">>,
                         <<"Hint: Enter the full name of the item, ",
                           "eg. 'rusty key' instead of 'key'.">> >>]
        ELSE IF held < INVENTORY_LIMIT
        THEN [items |-> [its EXCEPT ![i].location = HELD],
              items_held |-> held + 1,
              out |-> << <<"You picked up the ">> \o JoinWords(its[i].name)
                         \o <<".">> >>]
        ELSE [items |-> its, items_held |-> held,
              out |-> << <<"You're carrying too much. ",
                           "Drop an item to pick it up.">> >>]

\* Variant of Pickup that, given no argument, takes the first item in the
\* room.
Pickup_default_item(line) ==
    LET command == Lower(line)
        first == FirstIndex({k \in DOMAIN items :
                     items[k].location = current_room})
        name == IF Len(command) < 2
                THEN (IF first = 0 THEN <<>> ELSE Lower(items[first].name))
                ELSE Tail(command)
        r == pickup(items, current_room, items_held, name)
    IN  /\ ~leave
        /\ command # <<>>
        /\ command[1] = "pickup"
        /\ items' = r.items
        /\ items_held' = r.items_held
        /\ out' = r.out
        /\ lookOut' = IF r.items = items THEN lookOut ELSE NoLook
        /\ UNCHANGED <<game_map, current_room, entrance_room, leave>>

Pickup(line) ==
    LET command == Lower(line)
    IN  /\ ~leave
        /\ command # <<>>
        /\ command[1] = "pickup"
        /\ IF Len(command) < 2
           THEN Say(<< <<"Pickup what?">> >>)
           ELSE LET r == pickup(items, current_room, items_held, Tail(command))
                IN  /\ items' = r.items
                    /\ items_held' = r.items_held
                    /\ out' = r.out
                    /\ lookOut' = IF r.items = items THEN lookOut ELSE NoLook
                    /\ UNCHANGED <<game_map, current_room, entrance_room, leave>>

LockedLine == <<"This room is locked. You need a key.">>
ReminderLine == <<"You have reached the entrance. ", "Type 'leave' to exit.">>

\* Variant of drop that leaves the held-count as it is.
drop_no_decrement(its, room, held, item_name) ==
    LET i == FirstIndex({k \in DOMAIN its :
                 its[k].location = HELD /\ Lower(its[k].name) = item_name})
    IN  IF i = 0
        THEN [items |-> its, items_held |-> held,
              out |-> << <<"You're not carrying that.">> >>]
        ELSE [items |-> [its EXCEPT ![i].location = room],
              items_held |-> held,
              out |-> << <<"You dropped the ">> \o JoinWords(its[i].name)
                         \o <<".">> >>]

\* The drop branch on the items.
drop(its, room, held, item_name) ==
    LET i == FirstIndex({k \in DOMAIN its :
                 its[k].location = HELD /\ Lower(its[k].name) = item_name})
    IN  IF i = 0
        THEN [items |-> its, items_held |-> held,
              out |-> << <<"You're not carrying that.">> >>]
        ELSE [items |-> [its EXCEPT ![i].location = room],
              items_held |-> held - 1,
              out |-> << <<"You dropped the ">> \o JoinWords(its[i].name)
                         \o <<".">> >>]

Drop(line) ==
    LET command == Lower(line)
    IN  /\ ~leave
        /\ command # <<>>
        /\ command[1] = "drop"
        /\ IF Len(command) < 2
           THEN Say(<< <<"Drop what?">> >>)
           ELSE LET r == drop(items, current_room, items_held, Tail(command))
                IN  /\ items' = r.items
                    /\ items_held' = r.items_held
                    /\ out' = r.out
                    /\ lookOut' = IF r.items = items THEN lookOut ELSE NoLook
                    /\ UNCHANGED <<game_map, current_room, entrance_room, leave>>


\* Variant of go without the test for -1.
go_no_sentinel_test(gm, its, room, entrance, direction) ==
    LET r == get_new_room_number(gm, room, direction)
        new_room_number == r.room
    IN  IF new_room_number = -1
        THEN [current_room |-> new_room_number, out |-> r.out]
        ELSE IF gm[new_room_number].is_locked
                /\ ~check_key(new_room_number, its)
        THEN [current_room |-> room, out |-> <<LockedLine>>]
        ELSE [current_room |-> new_room_number,
              out |-> describe_room(gm, its, new_room_number)
                      \o (IF new_room_number = entrance
                          THEN <<ReminderLine>> ELSE <<>>)]

\* Variant of go that prints the reminder when the room being left is the
\* entrance room.
go_reminder_on_departure(gm, its, room, entrance, direction) ==
    LET r == get_new_room_number(gm, room, direction)
        new_room_number == r.room
    IN  IF new_room_number = -1
        THEN [current_room |-> room, out |-> r.out]
        ELSE IF gm[new_room_number].is_locked
                /\ ~check_key(new_room_number, its)
        THEN [current_room |-> room, out |-> <<LockedLine>>]
        ELSE [current_room |-> new_room_number,
              out |-> describe_room(gm, its, new_room_number)
                      \o (IF room = entrance
                          THEN <<ReminderLine>> ELSE <<>>)]

\* Variant of go whose lock test reads the room being left.
go_checks_departure(gm, its, room, entrance, direction) ==
    LET r == get_new_room_number(gm, room, direction)
        new_room_number == r.room
    IN  IF new_room_number = -1
        THEN [current_room |-> room, out |-> r.out]
        ELSE IF gm[room].is_locked /\ ~check_key(room, its)
        THEN [current_room |-> room, out |-> <<LockedLine>>]
        ELSE [current_room |-> new_room_number,
              out |-> describe_room(gm, its, new_room_number)
                      \o (IF new_room_number = entrance
                          THEN <<ReminderLine>> ELSE <<>>)]

\* The go branch from its direction token on: the new current room and
\* the output.
go(gm, its, room, entrance, direction) ==
    LET r == get_new_room_number(gm, room, direction)
        new_room_number == r.room
    IN  IF new_room_number = -1
        THEN [current_room |-> room, out |-> r.out]
        ELSE IF gm[new_room_number].is_locked
                /\ ~check_key(new_room_number, its)
        THEN [current_room |-> room, out |-> <<LockedLine>>]
        ELSE [current_room |-> new_room_number,
              out |-> describe_room(gm, its, new_room_number)
                      \o (IF new_room_number = entrance
                          THEN <<ReminderLine>> ELSE <<>>)]

\* Variant of Go that unlocks the room it enters.
Go_unlocks(line) ==
    LET command == Lower(line)
    IN  /\ ~leave
        /\ command # <<>>
        /\ command[1] = "go"
        /\ IF Len(command) < 2
           THEN Say(<< <<"Go where?">> >>)
           ELSE LET r == go(game_map, items, current_room, entrance_room,
                            command[2])
                IN  /\ current_room' = r.current_room
                    /\ out' = r.out
                    /\ lookOut' = IF r.current_room = current_room
                                  THEN lookOut ELSE NoLook
                    /\ game_map' = IF r.out = <<LockedLine>>
                                   THEN game_map
                                   ELSE [game_map EXCEPT
                                            ![r.current_room].is_locked = FALSE]
                    /\ UNCHANGED <<items, entrance_room, items_held, leave>>

Go(line) ==
    LET command == Lower(line)
    IN  /\ ~leave
        /\ command # <<>>
        /\ command[1] = "go"
        /\ IF Len(command) < 2
           THEN Say(<< <<"Go where?">> >>)
           ELSE LET r == go(game_map, items, current_room, entrance_room,
                            command[2])
                IN  /\ current_room' = r.current_room
                    /\ out' = r.out
                    /\ lookOut' = IF r.current_room = current_room
                                  THEN lookOut ELSE NoLook
                    /\ UNCHANGED <<game_map, items, entrance_room,
                                   items_held, leave>>

\* Variant of try_leave that ends the loop when the win check fails at the
\* entrance room.
try_leave_forced(its, room, entrance) ==
    IF room = entrance
    THEN IF validate_exit(its)
         THEN [leave |-> TRUE, out |-> WonLines]
         ELSE [leave |-> TRUE,
               out |-> << <<"You don't have enough aura to leave! ",
                            "Press Ctrl-C to force quit and lose.">> >>]
    ELSE [leave |-> FALSE, out |-> << <<"You can't leave from here.">> >>]

\* Variant of try_leave without the test for the entrance room.
try_leave_anywhere(its, room, entrance) ==
    IF validate_exit(its)
    THEN [leave |-> TRUE, out |-> WonLines]
    ELSE [leave |-> FALSE,
          out |-> << <<"You don't have enough aura to leave! ",
                       "Press Ctrl-C to force quit and lose.">> >>]

\* The leave branch: whether the loop ends, and the output.
try_leave(its, room, entrance) ==
    IF room = entrance
    THEN IF validate_exit(its)
         THEN [leave |-> TRUE, out |-> WonLines]
         ELSE [leave |-> FALSE,
               out |-> << <<"You don't have enough aura to leave! ",
                            "Press Ctrl-C to force quit and lose.">> >>]
    ELSE [leave |-> FALSE, out |-> << <<"You can't leave from here.">> >>]

Leave(line) ==
    LET command == Lower(line)
        r == try_leave(items, current_room, entrance_room)
    IN  /\ ~leave
        /\ command # <<>>
        /\ command[1] = "leave"
        /\ leave' = r.leave
        /\ out' = r.out
        /\ lookOut' = IF r.leave THEN NoLook ELSE lookOut
        /\ UNCHANGED <<game_map, items, current_room, entrance_room,
                       items_held>>

Help(line) ==
    LET command == Lower(line)
    IN  /\ ~leave
        /\ command # <<>>
        /\ command[1] = "help"
        /\ Say(show_help)

Unknown(line) ==
    LET command == Lower(line)
    IN  /\ ~leave
        /\ command # <<>>
        /\ command[1] \notin {"look", "inventory", "pickup", "drop", "go",
                              "leave", "help"}
        /\ Say(<< <<"Unknown command. Enter 'help' for commands.">> >>)

\* The lines of input each branch of the loop handles.
LinesOf(verbs) == {l \in Lines : l # <<>> /\ LowerWord(l[1]) \in verbs}
LookLines == LinesOf({"look"})
InventoryLines == LinesOf({"inventory"})
PickupLines == LinesOf({"pickup"})
DropLines == LinesOf({"drop"})
GoLines == LinesOf({"go"})
LeaveLines == LinesOf({"leave"})
HelpLines == LinesOf({"help"})
EmptyLines == {l \in Lines : l = <<>>}
UnknownLines ==
    (Lines \ EmptyLines)
    \ LinesOf({"look", "inventory", "pickup", "drop", "go", "leave", "help"})

Next ==
    \/ \E line \in EmptyLines : Empty(line)
    \/ \E line \in LookLines : Look(line)
    \/ \E line \in InventoryLines : Inventory(line)
    \/ \E line \in PickupLines : Pickup(line)
    \/ \E line \in DropLines : Drop(line)
    \/ \E line \in GoLines : Go(line)
    \/ \E line \in LeaveLines : Leave(line)
    \/ \E line \in HelpLines : Help(line)
    \/ \E line \in UnknownLines : Unknown(line)

Spec == Init /\ [][Next]_vars

----------------------------------------------------------------------------
\* Properties.

ItemIds == DOMAIN items
HeldIds == {i \in ItemIds : items[i].location = HELD}
FirstPiece(o) == IF o # <<>> /\ o[1] # <<>> THEN o[1][1] ELSE ""
TooMuchLines ==
    << <<"You're carrying too much. ", "Drop an item to pick it up.">> >>

\* C1: in every reachable state the held-count items_held equals the number
\* of items whose location is the held sentinel 999.
C1_HeldCountMatches == items_held = Cardinality(HeldIds)

\* A drop has acted while other items stay held.
C1_Witness ==
    /\ FirstPiece(out) = "You dropped the "
    /\ items_held = 2
    /\ Cardinality(HeldIds) = 2

\* C2: the current room is always a valid index into the room collection;
\* the -1 that get_new_room_number returns never becomes the current room.
C2_CurrentRoomValid ==
    /\ current_room \in DOMAIN game_map
    /\ current_room # -1

\* get_new_room_number has returned -1 (no such exit, unknown direction).
C2_Witness ==
    /\ FirstPiece(out) \in {"You can't go ", "'"}
    /\ current_room \in DOMAIN game_map

\* C3: the loop ends only by a leave command issued in the entrance room
\* while an item named "Aura" is held; in the state Won the current room is
\* the entrance room and that item is held.
C3_WonOnlyByLeave ==
    /\ [](leave =>
            /\ current_room = entrance_room
            /\ \E i \in ItemIds :
                  items[i].name = <<"Aura">> /\ items[i].location = HELD)
    /\ [][leave' # leave =>
            /\ \E line \in LeaveLines : Leave(line)
            /\ ~leave /\ leave'
            /\ current_room = entrance_room
            /\ \E i \in ItemIds :
                  items[i].name = <<"Aura">> /\ items[i].location = HELD
            /\ UNCHANGED <<game_map, items, current_room, entrance_room,
                           items_held>>]_vars

\* The session is Won.
C3_Witness == leave /\ out = WonLines

\* A step of the command "pickup aura" that picks up item i in the entrance
\* room.
PickupAuraAtEntrance(i) ==
    /\ current_room = entrance_room
    /\ items[i].location = current_room
    /\ items'[i].location = HELD
    /\ \E line \in PickupLines :
          Lower(line) = <<"pickup", "aura">> /\ Pickup(line)

LeaveWins(its, room, entrance) == try_leave(its, room, entrance).leave

\* C4 as stated: after "pickup aura" picks up an item in the entrance room,
\* leave wins, whatever the letter case of the item's stored name.
C4_Original ==
    [][\A i \in ItemIds :
          PickupAuraAtEntrance(i)
          => LeaveWins(items', current_room', entrance_room')]_vars

\* C4 (amended): after "pickup aura" picks up, in the entrance room, an item
\* whose stored name is exactly "Aura", a leave issued next wins.
C4_PickupAuraThenLeaveWins ==
    [][\A i \in ItemIds :
          PickupAuraAtEntrance(i) /\ items[i].name = <<"Aura">>
          => LeaveWins(items', current_room', entrance_room')]_vars

\* "pickup aura" has picked up the item named "Aura" in the entrance room.
C4_Witness ==
    /\ out = << <<"You picked up the ", "Aura", ".">> >>
    /\ current_room = entrance_room
    /\ ~leave

\* C5: a pickup naming an item of the current room while INVENTORY_LIMIT
\* items are held fails: the "carrying too much" message is printed and the
\* items, the held-count and the current room are unchanged.
C5_FullInventoryPickupFails ==
    [][\A line \in PickupLines :
          /\ Cardinality(HeldIds) = INVENTORY_LIMIT
          /\ Len(line) >= 2
          /\ \E i \in ItemIds :
                /\ items[i].location = current_room
                /\ Lower(items[i].name) = Tail(Lower(line))
          /\ Pickup(line)
          => /\ out' = TooMuchLines
             /\ UNCHANGED <<items, items_held, current_room>>]_vars

\* The fourth pickup has been refused with three items held.
C5_Witness ==
    /\ out = TooMuchLines
    /\ Cardinality(HeldIds) = INVENTORY_LIMIT
    /\ \E i \in ItemIds : items[i].location = current_room

\* The exit of the current room a go with this one-token argument takes.
ExitTaken(line) == Lookup(game_map[current_room].exits, LowerWord(line[2]))

\* C6: a go toward an existing exit whose destination is locked is carried
\* out if and only if some held item is a Key whose rooms_unlocked contains
\* the destination; a blocked go prints the "locked" message and leaves the
\* state unchanged.
C6_LockedNeedsHeldKey ==
    [][\A line \in GoLines :
          /\ Len(line) = 2
          /\ HasKey(game_map[current_room].exits, LowerWord(line[2]))
          /\ InSeq(LowerWord(line[2]), VALID_DIRECTIONS)
          /\ game_map[ExitTaken(line)].is_locked
          /\ Go(line)
          => IF \E i \in HeldIds :
                   /\ items[i].type = "Key"
                   /\ ExitTaken(line) \in items[i].rooms_unlocked
             THEN /\ current_room' = ExitTaken(line)
                  /\ out' # <<LockedLine>>
             ELSE /\ out' = <<LockedLine>>
                  /\ UNCHANGED core]_vars

\* A go was blocked although the matching key lies in the current room and
\* another item is held.
C6_Witness ==
    /\ out = <<LockedLine>>
    /\ HeldIds # {}
    /\ \E i \in ItemIds, e \in DOMAIN game_map[current_room].exits :
          LET dest == game_map[current_room].exits[e][2]
          IN  /\ items[i].type = "Key"
              /\ items[i].location = current_room
              /\ game_map[dest].is_locked
              /\ dest \in items[i].rooms_unlocked

\* C7: no command changes a room: the locked flag, the lit flag and the
\* exits of every room stay as loaded.
C7_RoomsNeverChange == [][game_map' = game_map]_vars

\* The key (loaded in room 0) was carried into the locked last room and
\* dropped there, and a later go toward that room was blocked.
C7_Witness ==
    /\ NumRooms > 1
    /\ out = <<LockedLine>>
    /\ current_room # NumRooms - 1
    /\ game_map[NumRooms - 1].is_locked
    /\ items[1].type = "Key"
    /\ items[1].location = NumRooms - 1
    /\ (NumRooms - 1) \in items[1].rooms_unlocked

\* The index of the item a step picks up.
PickedUp(i) == items[i].location # HELD /\ items'[i].location = HELD

\* The items and held-count after a drop of the same name in the state a
\* pickup step leads to.
DropAfter(line) ==
    drop(items', current_room', items_held', Tail(Lower(line)))

\* C8 as stated: a successful pickup followed by a drop of the same name in
\* the same room restores every item's location and the held-count.
C8_Original ==
    [][\A line \in PickupLines :
          /\ Len(line) >= 2
          /\ items' # items
          /\ Pickup(line)
          => /\ DropAfter(line).items = items
             /\ DropAfter(line).items_held = items_held]_vars

\* C8 (amended): the round trip restores the state provided no item that
\* was already held, and that precedes the picked-up item in load order,
\* has the same lower-cased name.
C8_RoundTripRestores ==
    [][\A line \in PickupLines :
          /\ Len(line) >= 2
          /\ items' # items
          /\ \A i \in ItemIds :
                PickedUp(i) =>
                   \A j \in 1 .. (i - 1) :
                      ~(/\ items[j].location = HELD
                        /\ Lower(items[j].name) = Tail(Lower(line)))
          /\ Pickup(line)
          => /\ DropAfter(line).items = items
             /\ DropAfter(line).items_held = items_held]_vars

\* The item stored as "aura" has been picked up while a later item of the
\* same lower-cased name was already held.
C8_Witness ==
    /\ out = << <<"You picked up the ", "aura", ".">> >>
    /\ \E i, j \in HeldIds :
          /\ i < j
          /\ items[i].name = <<"aura">>
          /\ items[j].name # <<"aura">>
          /\ Lower(items[j].name) = <<"aura">>

\* C9: look changes no state, and a look issued when an earlier look has
\* run and the state has not changed since prints the same lines.
C9_LookIdempotent ==
    [][\A line \in LookLines :
          Look(line)
          => /\ UNCHANGED core
             /\ lookOut # NoLook => out' = lookOut]_vars

\* A look has run in a state in which an earlier output was overwritten.
C9_Witness ==
    /\ lookOut # NoLook
    /\ out = lookOut
    /\ HeldIds # {}

\* Whether a turn's output starts with a description of the current room.
Described(o) == o[1] \in {DarkLine, game_map[current_room].name}
WithoutReminder(o) ==
    IF o[Len(o)] = ReminderLine THEN SubSeq(o, 1, Len(o) - 1) ELSE o

\* C10: a description of the current room is the darkness message alone
\* exactly when the room is unlit and no held item provides light; otherwise
\* it is the name, the description, one line per item in the room and the
\* passages.
C10_DarknessRule ==
    \A o \in {out, lookOut} :
        Described(o) =>
            LET body == WithoutReminder(o)
                inRoom == {i \in ItemIds : items[i].location = current_room}
            IN  IF /\ ~game_map[current_room].is_lit
                   /\ ~\E i \in HeldIds : items[i].provides_light
                THEN body = <<DarkLine>>
                ELSE /\ Len(body) = 3 + Cardinality(inRoom)
                     /\ body[1] = game_map[current_room].name
                     /\ body[2] = game_map[current_room].description
                     /\ \A k \in 3 .. (Len(body) - 1) :
                           body[k][1] = "There is a "
                     /\ body[Len(body)][1] \in
                           {"There are no visible exits from the room.",
                            "There is a passage out of the room going ",
                            "There are passages out of the room going "}

\* A look in an unlit room printed the darkness message although an item
\* that provides light lies in the room.
C10_Witness ==
    /\ lookOut = <<DarkLine>>
    /\ out = lookOut
    /\ \E i \in ItemIds :
          items[i].provides_light /\ items[i].location = current_room

\* The state a command may change, apart from the output.
session == <<current_room, items, items_held, leave>>

\* C11: an empty line, an unrecognized first token, and pickup, drop or go
\* without an argument leave the current room, the items and the held-count
\* unchanged and keep the session in Exploring.
C11_InputErrorsChangeNothing ==
    [][(\/ \E line \in EmptyLines : Empty(line)
        \/ \E line \in UnknownLines : Unknown(line)
        \/ \E line \in {l \in PickupLines : Len(l) = 1} : Pickup(line)
        \/ \E line \in {l \in DropLines : Len(l) = 1} : Drop(line)
        \/ \E line \in {l \in GoLines : Len(l) = 1} : Go(line))
       => /\ UNCHANGED session
          /\ ~leave'
          /\ UNCHANGED <<game_map, entrance_room>>]_vars

\* "Pickup what?" was printed in a room that holds an item, with an item
\* held.
C11_Witness ==
    /\ out = << <<"Pickup what?">> >>
    /\ HeldIds # {}
    /\ \E i \in ItemIds : items[i].location = current_room
    /\ ~leave

\* The message get_new_room_number prints for a one-token argument.
UnknownDirectionLines(line) ==
    << <<"'", LowerWord(line[2]), "' is not a valid direction.">> >>
NoSuchExitLines(line) ==
    << <<"You can't go ", LowerWord(line[2]), " from here.">> >>

\* The go lines with a one-token argument, by whether it is canonical.
CanonicalGoLines ==
    {l \in GoLines : Len(l) = 2 /\ InSeq(LowerWord(l[2]), VALID_DIRECTIONS)}
UnknownDirectionGoLines ==
    {l \in GoLines : Len(l) = 2 /\ ~InSeq(LowerWord(l[2]), VALID_DIRECTIONS)}

\* C12: a go whose direction is not canonical, or is canonical but no exit
\* of the current room, changes no state and prints one message and no room
\* description; the canonical test comes first, so an exit under a
\* non-canonical key is never taken.
C12_BadDirectionChangesNothing ==
    [][/\ \A line \in UnknownDirectionGoLines :
             Go(line) => UNCHANGED core /\ out' = UnknownDirectionLines(line)
       /\ \A line \in CanonicalGoLines :
             /\ ~HasKey(game_map[current_room].exits, LowerWord(line[2]))
             /\ Go(line)
             => UNCHANGED core /\ out' = NoSuchExitLines(line)]_vars

\* A go along the exit the room has under the key "portal" was refused as
\* an unknown direction.
C12_Witness ==
    /\ out = << <<"'", "portal", "' is not a valid direction.">> >>
    /\ HasKey(game_map[current_room].exits, "portal")

\* C13: the argument of go is all tokens after the first joined with
\* single spaces, so a go line with two or more tokens after "go" moves the
\* player only when the whole joined text is a canonical direction that is
\* an exit of the current room; joined text of two or more tokens is never
\* a canonical direction, so such a line never moves the player.
C13_GoUsesWholeArgument ==
    [][\A line \in GoLines :
          /\ Len(line) >= 3
          /\ Go(line)
          => /\ current_room' = current_room
             /\ out' = << <<"'">> \o JoinWords(Tail(Lower(line)))
                          \o <<"' is not a valid direction.">> >>]_vars

\* C14: a leave issued outside the entrance room, or at the entrance room
\* without the win item held, changes no state and keeps the session in
\* Exploring.
C14_FailedLeaveChangesNothing ==
    [][\A line \in LeaveLines :
          /\ \/ current_room # entrance_room
             \/ ~\E i \in HeldIds : items[i].name = <<"Aura">>
          /\ Leave(line)
          => /\ UNCHANGED core
             /\ ~leave'
             /\ out' # WonLines]_vars

\* A leave was refused away from the entrance room with the win item held.
C14_Witness ==
    /\ out = << <<"You can't leave from here.">> >>
    /\ current_room # entrance_room
    /\ \E i \in HeldIds : items[i].name = <<"Aura">>
    /\ ~leave

\* The items whose location a step changes.
Moved == {i \in ItemIds : items'[i].location # items[i].location}

\* C15: the set of items is fixed and location is the only attribute a
\* command changes; a step changes the location of at most one item, either
\* from the current room to held in a pickup or from held to the current
\* room in a drop; every item is always held or in a room.
C15_OnlyLocationsChange ==
    /\ [](\A i \in ItemIds : items[i].location \in Rooms \cup {HELD})
    /\ [][/\ DOMAIN items' = DOMAIN items
          /\ \A i \in ItemIds :
                items'[i] = [items[i] EXCEPT !.location = items'[i].location]
          /\ Cardinality(Moved) <= 1
          /\ \A i \in Moved :
                \/ /\ items[i].location = current_room
                   /\ items'[i].location = HELD
                   /\ \E line \in PickupLines : Pickup(line)
                \/ /\ items[i].location = HELD
                   /\ items'[i].location = current_room
                   /\ \E line \in DropLines : Drop(line)]_vars

\* The key, loaded in room 0, has been dropped in the last room.
C15_Witness ==
    /\ NumRooms > 1
    /\ FirstPiece(out) = "You dropped the "
    /\ items[1].location = NumRooms - 1
    /\ current_room = NumRooms - 1

\* A go line names a canonical direction that is an exit of the current room
\* whose destination is unlocked or can be unlocked by a held key.
GoSucceeds(line) ==
    /\ HasKey(game_map[current_room].exits, LowerWord(line[2]))
    /\ \/ ~game_map[ExitTaken(line)].is_locked
       \/ check_key(ExitTaken(line), items)

\* C16: a successful go sets the current room to the destination and prints
\* the description of the destination under the darkness rule, followed by
\* the leave reminder exactly when the destination is the entrance room; the
\* reminder is printed by no other command and by no failed go.
C16_GoDescribesDestination ==
    [][/\ \A line \in CanonicalGoLines :
             /\ GoSucceeds(line)
             /\ Go(line)
             => /\ current_room' = ExitTaken(line)
                /\ out' = describe_room(game_map, items, ExitTaken(line))
                          \o (IF ExitTaken(line) = entrance_room
                              THEN <<ReminderLine>> ELSE <<>>)
                /\ out'[1] = DarkLine
                   <=> /\ ~game_map[ExitTaken(line)].is_lit
                       /\ ~player_light(items)
       /\ InSeq(ReminderLine, out')
          => \E line \in CanonicalGoLines :
                /\ GoSucceeds(line)
                /\ ExitTaken(line) = entrance_room
                /\ out'[Len(out')] = ReminderLine
                /\ Go(line)]_vars

\* The player walked into the dark entrance room without a light.
C16_Witness ==
    /\ out = <<DarkLine, ReminderLine>>
    /\ current_room = entrance_room
    /\ ~game_map[current_room].is_lit

\* C18: in every reachable state the is_held attribute of each item is true
\* exactly when the item is held, that is when its location is 999.
C18_IsHeldTracksLocation ==
    \A i \in ItemIds : items[i].is_held <=> items[i].location = HELD

\* C19: the number of held items never exceeds INVENTORY_LIMIT and the
\* held-count is never negative.
C19_InventoryBounded ==
    /\ Cardinality(HeldIds) <= INVENTORY_LIMIT
    /\ items_held >= 0
    /\ items_held <= INVENTORY_LIMIT

\* The inventory was filled to the limit by a pickup while another item lies
\* in the current room.
C19_Witness ==
    /\ Cardinality(HeldIds) = INVENTORY_LIMIT
    /\ FirstPiece(out) = "You picked up the "
    /\ \E i \in ItemIds : items[i].location = current_room

\* C20: the lock test of go reads only the destination room, so from inside
\* a locked room every exit whose destination is unlocked is taken.
C20_LockedRoomCanBeLeft ==
    [][\A line \in CanonicalGoLines :
          /\ game_map[current_room].is_locked
          /\ HasKey(game_map[current_room].exits, LowerWord(line[2]))
          /\ ~game_map[ExitTaken(line)].is_locked
          /\ Go(line)
          => /\ current_room' = ExitTaken(line)
             /\ out' # <<LockedLine>>
             /\ out'[1] \in {DarkLine, game_map[ExitTaken(line)].name}]_vars

\* The player has walked out of the locked last room into the entrance room
\* while holding no key of the room that was left.
C20_Witness ==
    /\ NumRooms > 1
    /\ current_room = 0
    /\ entrance_room = 0
    /\ out[Len(out)] = ReminderLine
    /\ game_map[NumRooms - 1].is_locked
    /\ ~check_key(NumRooms - 1, items)

\* ---------------------------------------------------------------------
\* format_passages on every exits mapping over the six directions.

\* The enumeration orders a dict over the valid directions can have: the
\* sequences of distinct directions.
DirectionLists ==
    {ds \in UNION {[1 .. n -> {VALID_DIRECTIONS[k] : k \in DOMAIN VALID_DIRECTIONS}]
                     : n \in 0 .. Len(VALID_DIRECTIONS)} :
        \A i, j \in DOMAIN ds : ds[i] = ds[j] => i = j}

\* The exits mappings: each direction of a list leads to room 0.
ExitMappings == {[i \in DOMAIN ds |-> <<ds[i], 0>>] : ds \in DirectionLists}

\* A map of one room whose exits are any exits mapping; nothing printed yet.
InitFP ==
    /\ \E exits \in ExitMappings :
          game_map = [r \in {0} |-> [Room(0, TRUE, FALSE) EXCEPT !.exits = exits]]
    /\ items = <<>>
    /\ current_room = 0
    /\ entrance_room = 0
    /\ items_held = 0
    /\ leave = FALSE
    /\ out = <<>>
    /\ lookOut = NoLook

\* The exits of the room are formatted and printed.
FormatPassages ==
    /\ out' = <<format_passages(game_map[current_room].exits)>>
    /\ UNCHANGED <<core, lookOut>>

NextFP == FormatPassages

SpecFP == InitFP /\ [][NextFP]_vars

\* The directions of the exits of the room, in enumeration order.
Directions ==
    [i \in DOMAIN game_map[current_room].exits |->
        game_map[current_room].exits[i][1]]

\* C17: format_passages gives the fixed sentence for no exits, the singular
\* sentence naming the direction for one exit, "d1 and d2" for two, and for
\* three or more all directions but the last separated by ", ", then " and "
\* and the last; every direction appears exactly once, in enumeration order.
C17_FormatPassages ==
    out # <<>> =>
        LET text == out[1]
            n == Len(Directions)
        IN  /\ n = 0 => text = <<"There are no visible exits from the room.">>
            /\ n = 1 => text = <<"There is a passage out of the room going ",
                                 Directions[1], ".">>
            /\ n = 2 => text = <<"There are passages out of the room going ",
                                 Directions[1], " and ", Directions[2], ".">>
            /\ n >= 3 =>
                  /\ Len(text) = 2 * n + 1
                  /\ text[1] = "There are passages out of the room going "
                  /\ \A i \in 1 .. n : text[2 * i] = Directions[i]
                  /\ \A i \in 1 .. (n - 2) : text[2 * i + 1] = ", "
                  /\ text[2 * n - 1] = " and "
                  /\ text[2 * n + 1] = "."
            /\ \A i \in 1 .. n :
                  Cardinality({k \in DOMAIN text : text[k] = Directions[i]}) = 1
            /\ \A i, j \in 1 .. n :
                  i < j => \E k, l \in DOMAIN text :
                              k < l /\ text[k] = Directions[i]
                                    /\ text[l] = Directions[j]

\* Six exits, enumerated in an order other than that of VALID_DIRECTIONS,
\* have been formatted.
C17_Witness ==
    /\ out # <<>>
    /\ Len(Directions) = 6
    /\ Directions[1] = "west"
    /\ Directions[6] = "north"
    /\ Len(out[1]) = 13

====
